---------------------------- MODULE Spec2Model ----------------------------
(***************************************************************************)
(* Model of the ITURHFProp prediction service (src/unnamed/part_002):      *)
(* request handlers /api/predict, /api/predict/hourly and /api/bands,      *)
(* runPrediction with its scratch files and engine process, the input      *)
(* serializer generateInputFile, the report parser parseOutputFile and     *)
(* the one thread on which every handler runs.                             *)
(*                                                                         *)
(* Text is modelled as sequences of atoms (words, punctuation marks,       *)
(* numeric literals); a file is the sequence of its lines.  JavaScript     *)
(* numbers are records [k, v]: k is "num", "nan", "inf" or, for a property *)
(* that is not set, "undef"; reals are kept in thousandths (fixed point),  *)
(* integers as themselves.                                                 *)
(***************************************************************************)
EXTENDS Integers, Sequences, FiniteSets, TLC

VARIABLES
    \* ---- the service (specification Spec) ----
    pc,             \* position of the single JavaScript thread
    req,            \* the request being handled
    params,         \* params object handed to runPrediction
    hour,           \* loop variable of the hourly handler
    hourlyResults,  \* hourlyResults array of the hourly handler
    run,            \* locals of the runPrediction call in progress
    ret,            \* how the last runPrediction call ended
    fs,             \* scratch directory: file name -> content
    engine,         \* the engine process of the current invocation
    resp,           \* response sent for the current request
    faults,         \* environment failures injected so far in this request
    runLog,         \* history: one record per runPrediction call of the request
    \* ---- the report parser (specification SpecParse) ----
    pfile,          \* content at outputPath, or an unreadable marker
    ppc,            \* position inside parseOutputFile
    pidx,           \* index of the next line of the for loop
    inDataSection,  \* local of parseOutputFile
    pfreqs,         \* results.frequencies
    presult,        \* value returned by parseOutputFile
    \* ---- the event loop (specification SpecLoop) ----
    inbox,          \* /api/health requests received and not yet handled
    \* ---- GET /api/dxcluster/spots of the proxy (specification SpecDx) ----
    dpc,            \* position inside the handler
    dsrc,           \* index of the source whose try block is running
    dlog,           \* history: the sources consulted and how each ended
    dres            \* responses sent for the request

svars == <<pc, req, params, hour, hourlyResults, run, ret, fs, engine, resp,
           faults, runLog>>
pvars == <<pfile, ppc, pidx, inDataSection, pfreqs, presult>>
dvars == <<dpc, dsrc, dlog, dres>>
vars == <<svars, pvars, inbox, dvars>>

-----------------------------------------------------------------------------
(* Bounds of the model *)

\* longest report, in lines, given to the parser
MaxLines == 4
\* environment failures injected per request
MaxFaults == 2
\* /api/health requests that wait for the thread at one time
MaxPending == 1

-----------------------------------------------------------------------------
(* JavaScript values *)

Undefined == "undefined"
Num(n) == [k |-> "num", v |-> n]
NaN == [k |-> "nan", v |-> 0]
\* a numeric property that is not set
Undef == [k |-> "undef", v |-> 0]
Infinity == [k |-> "inf", v |-> 1]

IsNaN(x) == x.k = "nan"
\* x > 0 on numbers: false for NaN, true for +Infinity
GreaterThanZero(x) == (x.k = "inf") \/ (x.k = "num" /\ x.v > 0)
\* a number used as a condition: NaN and 0 are falsy
Falsy(x) == IsNaN(x) \/ (x.k = "num" /\ x.v = 0)
\* a || b on numbers
OrElse(a, b) == IF Falsy(a) THEN b ELSE a

-----------------------------------------------------------------------------
(* Text as sequences of atoms *)

SP == " "
Stars5 == <<"*", "*", "*", "*", "*">>

\* numeric literals of the vocabulary and their values in thousandths
NumTok ==
    [t \in {"02", "05", "2.000", "14.100", "7.100", "0.000", "120.29",
            "16.04", "98.50", "22.10", "85.30", "0.00", "1.000", "3.000",
            "13.500", "27.500", "50.000", "61.70", "18.100", "21.100",
            "24.900", "70.00", "69.99", "40.00", "39.99"} |->
        CASE t = "02" -> 2000
          [] t = "05" -> 5000
          [] t = "2.000" -> 2000
          [] t = "14.100" -> 14100
          [] t = "7.100" -> 7100
          [] t = "0.000" -> 0
          [] t = "120.29" -> 120290
          [] t = "16.04" -> 16040
          [] t = "98.50" -> 98500
          [] t = "22.10" -> 22100
          [] t = "85.30" -> 85300
          [] t = "0.00" -> 0
          [] t = "1.000" -> 1000
          [] t = "3.000" -> 3000
          [] t = "13.500" -> 13500
          [] t = "27.500" -> 27500
          [] t = "50.000" -> 50000
          [] t = "61.70" -> 61700
          [] t = "18.100" -> 18100
          [] t = "21.100" -> 21100
          [] t = "24.900" -> 24900
          [] t = "70.00" -> 70000
          [] t = "69.99" -> 69990
          [] t = "40.00" -> 40000
          [] t = "39.99" -> 39990]

RECURSIVE TrimLeft(_)
TrimLeft(s) == IF s # <<>> /\ Head(s) = SP THEN TrimLeft(Tail(s)) ELSE s

RECURSIVE TrimRight(_)
TrimRight(s) ==
    IF s # <<>> /\ s[Len(s)] = SP THEN TrimRight(SubSeq(s, 1, Len(s) - 1)) ELSE s

\* String.prototype.trim
Trim(s) == TrimRight(TrimLeft(s))

\* String.prototype.includes
Includes(s, sub) ==
    \E i \in 1..(Len(s) - Len(sub) + 1) : SubSeq(s, i, i + Len(sub) - 1) = sub

\* String.prototype.startsWith, for a one-character prefix
StartsWith(s, a) == s # <<>> /\ Head(s) = a

\* String.prototype.split(','): the fields between the commas
RECURSIVE SplitComma(_, _)
SplitComma(s, cur) ==
    IF s = <<>> THEN <<cur>>
    ELSE IF Head(s) = "," THEN <<cur>> \o SplitComma(Tail(s), <<>>)
    ELSE SplitComma(Tail(s), Append(cur, Head(s)))

\* parseFloat: leading blanks skipped, an optional sign, then the longest
\* numeric prefix; anything after it is ignored; no numeric prefix gives NaN
ParseFloatUnsigned(s) ==
    IF s = <<>> THEN NaN
    ELSE IF Head(s) \in DOMAIN NumTok THEN Num(NumTok[Head(s)])
    ELSE IF Head(s) = "Infinity" THEN Infinity
    ELSE NaN

Negate(x) ==
    IF x.k = "num" THEN Num(0 - x.v)
    ELSE IF x.k = "inf" THEN [k |-> "inf", v |-> 0 - x.v]
    ELSE x

ParseFloat(s) ==
    LET t == TrimLeft(s) IN
    IF StartsWith(t, "-") THEN Negate(ParseFloatUnsigned(Tail(t)))
    ELSE IF StartsWith(t, "+") THEN ParseFloatUnsigned(Tail(t))
    ELSE ParseFloatUnsigned(t)

-----------------------------------------------------------------------------
(* parseOutputFile *)

HeaderLine == Stars5 \o <<SP, "Calculated", SP, "Parameters", SP>> \o Stars5
FooterLine == Stars5 \o <<SP, "End", SP, "Calculated", SP, "Parameters", SP>> \o Stars5
BannerLine == Stars5 \o Stars5
DashLine == <<"-", "-", "-", "-", "-">>
BlankLine == <<>>
MufLine == <<"BMUF", SP, "=", SP, "14.100">>
\* "02, 05,    2.000,-120.29, -16.04,   0.00"
RowA == <<"02", ",", SP, "05", ",", SP, SP, "2.000", ",", "-", "120.29", ",",
          SP, "-", "16.04", ",", SP, SP, "0.00">>
RowB == <<"02", ",", SP, "05", ",", SP, "14.100", ",", "-", "98.50", ",",
          SP, "22.10", ",", SP, "85.30">>
\* a row cut short after its third field
RowShort == <<"02", ",", SP, "05", ",", SP, "7.100">>
\* a row whose frequency field is 0
RowZero == <<"02", ",", SP, "05", ",", SP, "0.000", ",", "-", "98.50", ",",
             SP, "22.10", ",", SP, "85.30">>

\* a row whose frequency field is Infinity
RowInf == <<"02", ",", SP, "05", ",", SP, "Infinity", ",", "-", "98.50", ",",
            SP, "22.10", ",", SP, "85.30">>
\* rows of six fields that begin, after blanks, with '-' and with '*'
RowDash == <<SP, "-", "02", ",", SP, "05", ",", SP, "14.100", ",", "-", "98.50",
             ",", SP, "22.10", ",", SP, "85.30">>
RowStar == <<"*", SP, "02", ",", SP, "05", ",", SP, "14.100", ",", "-", "98.50",
             ",", SP, "22.10", ",", SP, "85.30">>

\* rows at 13.5, 27.5 and 3 MHz
RowC == <<"02", ",", SP, "05", ",", SP, "13.500", ",", "-", "98.50", ",",
          SP, "16.04", ",", SP, "61.70">>
RowD == <<"02", ",", SP, "05", ",", SP, "27.500", ",", "-", "120.29", ",",
          SP, "-", "16.04", ",", SP, "22.10">>
RowE == <<"02", ",", SP, "05", ",", SP, "3.000", ",", "-", "98.50", ",",
          SP, "22.10", ",", SP, "85.30">>

\* rows whose reliability is 70, 69.99, 40 and 39.99
Row70 == <<"02", ",", SP, "05", ",", SP, "7.100", ",", "-", "98.50", ",",
           SP, "22.10", ",", SP, "70.00">>
Row6999 == <<"02", ",", SP, "05", ",", SP, "18.100", ",", "-", "98.50", ",",
             SP, "22.10", ",", SP, "69.99">>
Row40 == <<"02", ",", SP, "05", ",", SP, "21.100", ",", "-", "98.50", ",",
           SP, "22.10", ",", SP, "40.00">>
Row3999 == <<"02", ",", SP, "05", ",", SP, "24.900", ",", "-", "98.50", ",",
             SP, "22.10", ",", SP, "39.99">>

\* line 141: the line opens the table
IsHeader(trimmed) ==
    Includes(trimmed, <<"Calculated", SP, "Parameters">>) /\ ~Includes(trimmed, <<"End">>)

\* line 147: the line is a boundary marker
IsBoundary(trimmed) ==
    Includes(trimmed, <<"End", SP, "Calculated">>) \/ Includes(trimmed, Stars5)

\* the test of line 155 without inDataSection
IsRowCandidateAnywhere(inData, trimmed) ==
    trimmed # <<>> /\ ~StartsWith(trimmed, "*") /\ ~StartsWith(trimmed, "-")

\* line 155: the line is handed to the row parser
IsRowCandidate(inData, trimmed) ==
    inData /\ trimmed # <<>> /\ ~StartsWith(trimmed, "*") /\ ~StartsWith(trimmed, "-")

\* line 156: trimmed.split(',').map(p => p.trim())
Parts(trimmed) ==
    LET raw == SplitComma(trimmed, <<>>) IN [i \in 1..Len(raw) |-> Trim(raw[i])]

\* the record built from the fields one place to the left
RowRecordShifted(parts) ==
    [freq |-> ParseFloat(parts[2]), sdbw |-> ParseFloat(parts[3]),
     snr |-> ParseFloat(parts[4]), reliability |-> ParseFloat(parts[5])]

\* lines 159-170: the record built from the fields (JS index k is parts[k+1])
RowRecord(parts) ==
    [freq |-> ParseFloat(parts[3]), sdbw |-> ParseFloat(parts[4]),
     snr |-> ParseFloat(parts[5]), reliability |-> ParseFloat(parts[6])]

\* lines 158 and 164: the row is pushed
RowAccepted(parts) ==
    /\ Len(parts) >= 6
    /\ ~IsNaN(ParseFloat(parts[3]))
    /\ GreaterThanZero(ParseFloat(parts[3]))

\* a loop without the break
EndsScanNever(st, trimmed) == FALSE

\* the break taken at every boundary marker
EndsScanAtAnyMarker(st, trimmed) == IsBoundary(trimmed)

\* lines 147-149: the line ends the loop
EndsScan(st, trimmed) == IsBoundary(trimmed) /\ st.inData /\ Len(st.freqs) > 0

\* lines 137-175: one iteration of the for loop over a scanner state
\* st = [inData, freqs, done]; done stands for the break of line 149
ScanLine(st, line) ==
    LET trimmed == Trim(line) IN
    IF IsHeader(trimmed) THEN [st EXCEPT !.inData = TRUE]
    ELSE IF EndsScan(st, trimmed)
         THEN [st EXCEPT !.done = TRUE]
    ELSE IF IsRowCandidate(st.inData, trimmed) /\ RowAccepted(Parts(trimmed))
         THEN [st EXCEPT !.freqs = Append(@, RowRecord(Parts(trimmed)))]
    ELSE st

ScanInit == [inData |-> FALSE, freqs |-> <<>>, done |-> FALSE]

RECURSIVE ScanFrom(_, _, _)
ScanFrom(st, lines, i) ==
    IF i > Len(lines) \/ st.done THEN st
    ELSE ScanFrom(ScanLine(st, lines[i]), lines, i + 1)

\* line 178: the first match of /(?:BMUF|MUF|Operational MUF)\s*[:=]?\s*([\d.]+)/i
RECURSIVE SkipBlanks(_)
SkipBlanks(s) == IF s # <<>> /\ Head(s) = SP THEN SkipBlanks(Tail(s)) ELSE s

MufAt(s) ==
    LET a == SkipBlanks(s)
        b == IF a # <<>> /\ Head(a) \in {":", "="} THEN Tail(a) ELSE a
        c == SkipBlanks(b)
    IN  IF c # <<>> /\ Head(c) \in DOMAIN NumTok THEN Num(NumTok[Head(c)]) ELSE NaN

RECURSIVE MufInLine(_)
MufInLine(s) ==
    IF s = <<>> THEN NaN
    ELSE IF Head(s) \in {"BMUF", "MUF"} /\ ~IsNaN(MufAt(Tail(s))) THEN MufAt(Tail(s))
    ELSE MufInLine(Tail(s))

RECURSIVE MufMatch(_, _)
MufMatch(lines, i) ==
    IF i > Len(lines) THEN Undef
    ELSE IF ~IsNaN(MufInLine(lines[i])) THEN MufInLine(lines[i])
    ELSE MufMatch(lines, i + 1)

\* a file as fs.readFileSync finds it: err is "" and lines the content split
\* at '\n', or err is the code of the error thrown
TextFile(lines) == [err |-> "", lines |-> lines]
NoFile == [err |-> "ENOENT", lines |-> <<>>]
DeniedFile == [err |-> "EACCES", lines |-> <<>>]

ErrorMessage(code) ==
    IF code = "ENOENT" THEN "ENOENT: no such file or directory"
    ELSE IF code = "EACCES" THEN "EACCES: permission denied"
    ELSE IF code = "ENOSPC" THEN "ENOSPC: no space left on device"
    ELSE code

\* lines 130-133 and 177-184: the value returned when the body ran to its end
ParseReturn(freqs, lines) ==
    [frequencies |-> freqs, hasRaw |-> TRUE, raw |-> lines,
     muf |-> MufMatch(lines, 1), error |-> Undefined]

\* lines 185-188: the value returned by the catch block
ParseCatch(code) ==
    [frequencies |-> <<>>, hasRaw |-> FALSE, raw |-> <<>>, muf |-> Undef,
     error |-> ErrorMessage(code)]

\* lines 125-189
ParseOutputFile(file) ==
    IF file.err # "" THEN ParseCatch(file.err)
    ELSE ParseReturn(ScanFrom(ScanInit, file.lines, 1).freqs, file.lines)

-----------------------------------------------------------------------------
(* The band table *)

\* HF_BANDS (lines 40-53) in insertion order, frequencies in thousandths
BandNames == <<"160m", "80m", "60m", "40m", "30m", "20m", "17m", "15m", "12m",
               "11m", "10m">>
BandFreqs == <<2000, 3500, 5300, 7100, 10100, 14100, 18100, 21100, 24900,
               27000, 28100>>

\* Object.values(HF_BANDS) (lines 66 and 604)
HfBandValues == [i \in 1..Len(BandFreqs) |-> Num(BandFreqs[i])]

-----------------------------------------------------------------------------
(* Query parameters and the params object (handlers, lines 468-498, 517-538, *)
(* 584-605)                                                                  *)

\* a query parameter: not given, or given with its text
QAbsent == [given |-> FALSE, text |-> <<>>]
QText(t) == [given |-> TRUE, text |-> t]

\* !x on a query parameter: undefined and '' are falsy
QMissing(p) == ~p.given \/ p.text = <<>>

\* integer literals of the vocabulary
IntTok ==
    [t \in {"0", "7", "20", "50", "1000"} |->
        CASE t = "0" -> 0 [] t = "7" -> 7 [] t = "20" -> 20 [] t = "50" -> 50
          [] t = "1000" -> 1000]

\* coordinate literals of the vocabulary, in thousandths
CoordTok == [t \in {"40.50", "74.00"} |-> IF t = "40.50" THEN 40500 ELSE 74000]

\* parseInt of a query parameter
ParseIntUnsigned(s) ==
    IF s # <<>> /\ Head(s) \in DOMAIN IntTok THEN Num(IntTok[Head(s)]) ELSE NaN

ParseInt(p) ==
    LET t == TrimLeft(p.text) IN
    IF ~p.given THEN NaN
    ELSE IF StartsWith(t, "-") THEN Negate(ParseIntUnsigned(Tail(t)))
    ELSE IF StartsWith(t, "+") THEN ParseIntUnsigned(Tail(t))
    ELSE ParseIntUnsigned(t)

\* parseFloat of a coordinate parameter
ParseCoordUnsigned(s) ==
    IF s = <<>> THEN NaN
    ELSE IF Head(s) \in DOMAIN CoordTok THEN Num(CoordTok[Head(s)])
    ELSE IF Head(s) = "Infinity" THEN Infinity
    ELSE NaN

ParseCoord(p) ==
    LET t == TrimLeft(p.text) IN
    IF ~p.given THEN NaN
    ELSE IF StartsWith(t, "-") THEN Negate(ParseCoordUnsigned(Tail(t)))
    ELSE IF StartsWith(t, "+") THEN ParseCoordUnsigned(Tail(t))
    ELSE ParseCoordUnsigned(t)

Routes == {"predict", "hourly", "bands"}
CoordNames == {"txLat", "txLon", "rxLat", "rxLon"}
CoordInputs ==
    {QAbsent, QText(<<>>), QText(<<"40.50">>), QText(<<"abc">>),
     QText(<<"Infinity">>)}
HourInputs == {QAbsent, QText(<<"0">>), QText(<<"7">>), QText(<<"abc">>)}
SsnInputs == {QAbsent, QText(<<"0">>), QText(<<"50">>)}
TxPowerInputs == {QAbsent, QText(<<"1000">>), QText(<<"20">>)}
FrequenciesInputs ==
    {QAbsent, QText(<<>>), QText(<<"14.100", ",", "7.100">>),
     QText(<<"50.000">>), QText(<<"1.000", ",", "abc">>)}

\* the validation cut down to its first operand
MissingCoordsTxLatOnly(q) == QMissing(q.txLat)

\* lines 478, 526, 591: the request lacks a required coordinate
MissingCoords(q) ==
    QMissing(q.txLat) \/ QMissing(q.txLon) \/ QMissing(q.rxLat) \/ QMissing(q.rxLon)

AllQueries ==
    [route : {"predict"}, txLat : CoordInputs, txLon : CoordInputs,
     rxLat : CoordInputs, rxLon : CoordInputs, hour : HourInputs,
     ssn : SsnInputs, txPower : TxPowerInputs,
     frequencies : FrequenciesInputs, now : {Undef}]
    \cup
    [route : {"bands"}, txLat : CoordInputs, txLon : CoordInputs,
     rxLat : CoordInputs, rxLon : CoordInputs, hour : HourInputs,
     ssn : SsnInputs, txPower : {QAbsent}, frequencies : {QAbsent},
     now : {Undef}]
    \cup
    [route : {"hourly"}, txLat : CoordInputs, txLon : CoordInputs,
     rxLat : CoordInputs, rxLon : CoordInputs, hour : {QAbsent},
     ssn : SsnInputs, txPower : {QAbsent}, frequencies : {QAbsent},
     now : {Undef}]

\* number of optional parameters the query gives
GivenOptionals(q) ==
    Cardinality({n \in {"hour", "ssn", "txPower", "frequencies"} : q[n] # QAbsent})

\* the coordinates of the query whose text is not that of a finite number
NonFinite(q) ==
    {c \in CoordNames : ~QMissing(q[c]) /\ ParseCoord(q[c]).k # "num"}

\* the queries of the model: every combination of missing and well-formed
\* coordinates with the optional parameters left out; with the four
\* coordinates well formed, the optional parameters left out or (on
\* /api/predict and /api/bands) given one at a time; and on those two routes
\* one coordinate that is not a finite number, the other three well formed
\* and the optional parameters left out
Queries ==
    {q \in AllQueries :
        /\ (\E c \in CoordNames : QMissing(q[c])) =>
              (GivenOptionals(q) = 0 /\ NonFinite(q) = {})
        /\ NonFinite(q) # {} =>
              (GivenOptionals(q) = 0 /\ Cardinality(NonFinite(q)) = 1)
        /\ q.route = "hourly" => (GivenOptionals(q) = 0 /\ NonFinite(q) = {})
        /\ GivenOptionals(q) <= 1}

\* the values of new Date().getUTCHours()
UtcHours == 0..23

\* lines 489 and 602 read new Date().getUTCHours() only when parseInt(hour)
\* is falsy (|| evaluates its right side only then)
ReadsClock(q) == q.route \in {"predict", "bands"} /\ Falsy(ParseInt(q.hour))

\* lines 489, 602: parseInt(hour) || new Date().getUTCHours() || 12
\* now is Undef when the clock was not read
HourParam(q, now) == OrElse(OrElse(ParseInt(q.hour), now), Num(12))

\* lines 490, 537, 603: parseInt(ssn) || 100
SsnParam(q) == OrElse(ParseInt(q.ssn), Num(100))

\* line 491: parseInt(txPower) || 100
TxPowerParam(q) == OrElse(ParseInt(q.txPower), Num(100))

\* params.frequencies: not set, or set to a list of numbers
NoFrequencies == [given |-> FALSE, list |-> <<>>]
Frequencies(list) == [given |-> TRUE, list |-> list]

\* line 495: frequencies.split(',').map(f => parseFloat(f))
ParseFrequencies(text) ==
    LET parts == SplitComma(text, <<>>) IN
    [i \in 1..Len(parts) |-> ParseFloat(parts[i])]

\* lines 494-496 (/api/predict) and 604 (/api/bands)
FrequenciesParam(q) ==
    IF q.route = "bands" THEN Frequencies(HfBandValues)
    ELSE IF QMissing(q.frequencies) THEN NoFrequencies
    ELSE Frequencies(ParseFrequencies(q.frequencies.text))

\* lines 482-496, 595-605
SingleParams(q, now) ==
    [txLat |-> ParseCoord(q.txLat), txLon |-> ParseCoord(q.txLon),
     rxLat |-> ParseCoord(q.rxLat), rxLon |-> ParseCoord(q.rxLon),
     hour |-> HourParam(q, now), ssn |-> SsnParam(q),
     txPower |-> IF q.route = "predict" THEN TxPowerParam(q) ELSE Undef,
     frequencies |-> FrequenciesParam(q)]

\* lines 530-538 and 544: { ...baseParams, hour }
HourlyParams(q, h) ==
    [txLat |-> ParseCoord(q.txLat), txLon |-> ParseCoord(q.txLon),
     rxLat |-> ParseCoord(q.rxLat), rxLon |-> ParseCoord(q.rxLon),
     hour |-> Num(h), ssn |-> SsnParam(q), txPower |-> Undef,
     frequencies |-> NoFrequencies]

NoParams ==
    [txLat |-> Undef, txLon |-> Undef, rxLat |-> Undef, rxLon |-> Undef,
     hour |-> Undef, ssn |-> Undef, txPower |-> Undef,
     frequencies |-> NoFrequencies]

-----------------------------------------------------------------------------
(* generateInputFile (lines 58-120) *)

\* a destructuring default (lines 62-63)
Default(x, d) == IF x.k = "undef" THEN d ELSE x

\* line 96, without the hour-0 rule
PathHourNoWrap(h) == IF IsNaN(h) THEN Num(12) ELSE h

\* line 96: isNaN(hour) ? 12 : (hour === 0 ? 24 : hour)
PathHour(h) == IF IsNaN(h) THEN Num(12) ELSE IF h = Num(0) THEN Num(24) ELSE h

\* line 99: 10 * Math.log10(txPower / 1000) in thousandths, for the powers
\* in watts of the vocabulary
TenLog10 ==
    [w \in {7, 20, 50, 100, 1000} |->
        CASE w = 7 -> 0 - 21549
          [] w = 20 -> 0 - 16990
          [] w = 50 -> 0 - 13010
          [] w = 100 -> 0 - 10000
          [] w = 1000 -> 0]

\* a number in thousandths cut after its first decimal
ToFixed1Truncated(x) ==
    IF x.k # "num" THEN x
    ELSE IF x.v >= 0 THEN Num((x.v \div 100) * 100)
    ELSE Num(0 - (((0 - x.v) \div 100) * 100))

\* Number.prototype.toFixed(1) on a number in thousandths: the nearest
\* number with one decimal, the larger magnitude when two are equally near
ToFixed1(x) ==
    IF x.k # "num" THEN x
    ELSE IF x.v >= 0 THEN Num(((x.v + 50) \div 100) * 100)
    ELSE Num(0 - ((((0 - x.v) + 50) \div 100) * 100))

\* line 99: (10 * Math.log10(txPower / 1000)).toFixed(1); the logarithm of
\* 0 is -Infinity and that of a negative number NaN
PathTxPower(w) ==
    IF w.k # "num" THEN w
    ELSE IF w.v \in DOMAIN TenLog10 THEN ToFixed1(Num(TenLog10[w.v]))
    ELSE IF w.v = 0 THEN Negate(Infinity)
    ELSE NaN

\* lines 66 and 79: the numbers of Path.frequency; toFixed(3) prints a
\* number with its three decimals and NaN as "NaN"
FreqList(p) == IF p.frequencies.given THEN p.frequencies.list ELSE HfBandValues

\* the lines of the input text that depend on params; toFixed(4) of lines
\* 84-90 prints a finite coordinate with four decimals, NaN as "NaN" and
\* Infinity as "Infinity"
GenerateInputFile(p) ==
    [txLat |-> p.txLat, txLon |-> p.txLon, rxLat |-> p.rxLat, rxLon |-> p.rxLon,
     pathHour |-> PathHour(p.hour), pathSSN |-> Default(p.ssn, Num(100)),
     txPower |-> Default(p.txPower, Num(100)),
     pathTxPower |-> PathTxPower(Default(p.txPower, Num(100))),
     frequencies |-> FreqList(p)]

NoInput ==
    [txLat |-> Undef, txLon |-> Undef, rxLat |-> Undef, rxLon |-> Undef,
     pathHour |-> Undef, pathSSN |-> Undef, txPower |-> Undef,
     pathTxPower |-> Undef, frequencies |-> <<>>]

-----------------------------------------------------------------------------
(* The environment of runPrediction: invocation ids, the engine, failures *)

\* line 195: crypto.randomBytes(8) gives an id that no file of the scratch
\* directory carries and no earlier call has drawn (two 64-bit random ids
\* that coincide are left out); the least unused number stands for it
UsedIds(files, log) ==
    files.input \cup {f.id : f \in files.output} \cup {log[i].id : i \in DOMAIN log}
FreshId(files, log) ==
    CHOOSE i \in 1..(Cardinality(UsedIds(files, log)) + 1) : i \notin UsedIds(files, log)

\* hours of an hourly request at which the environment may fail
FaultHours == {0, 3, 17, 23}

ReportGood == <<MufLine, HeaderLine, RowA, RowB, FooterLine>>
ReportNoRows == <<HeaderLine, FooterLine>>
ReportTruncated == <<HeaderLine, RowA>>
\* a report with two rows near 14.1 MHz, a row between 27.0 and 28.1 MHz, a
\* row 1 MHz above 2.0 MHz and four rows with reliabilities at and just
\* below 70 and 40
ReportBands ==
    <<HeaderLine, RowB, RowC, RowD, RowE, Row70, Row6999, Row40, Row3999,
      FooterLine>>

\* how an engine process can end: its exit ("ok", "nonzero", or "timeout"
\* when execSync kills it after 30 s), whether it wrote the output file and
\* what, its stdout and stderr; cost is 0 for the regular report and 1 for
\* the other outcomes, which FaultOK bounds
EngineOutcomes ==
    { [status |-> "ok", wrote |-> TRUE, report |-> ReportGood,
       stdout |-> "done", stderr |-> "", cost |-> 0],
      [status |-> "ok", wrote |-> TRUE, report |-> ReportBands,
       stdout |-> "done", stderr |-> "", cost |-> 1],
      [status |-> "ok", wrote |-> TRUE, report |-> ReportNoRows,
       stdout |-> "done", stderr |-> "", cost |-> 1],
      [status |-> "ok", wrote |-> FALSE, report |-> <<>>,
       stdout |-> "done", stderr |-> "", cost |-> 1],
      [status |-> "nonzero", wrote |-> TRUE, report |-> ReportTruncated,
       stdout |-> "partial", stderr |-> "engine error", cost |-> 1],
      [status |-> "nonzero", wrote |-> FALSE, report |-> <<>>,
       stdout |-> "", stderr |-> "not found", cost |-> 1],
      [status |-> "timeout", wrote |-> TRUE, report |-> ReportTruncated,
       stdout |-> "partial", stderr |-> "", cost |-> 1],
      [status |-> "timeout", wrote |-> FALSE, report |-> <<>>,
       stdout |-> "", stderr |-> "", cost |-> 1] }

\* an environment failure of the given cost may be injected now
FaultOK(cost) ==
    cost = 0 \/ (faults < MaxFaults /\ (req.route = "hourly" => hour \in FaultHours))

InputExists(id) == id \in fs.input
OutputExists(id) == \E f \in fs.output : f.id = id
OutputFile(id) ==
    IF OutputExists(id)
    THEN TextFile((CHOOSE f \in fs.output : f.id = id).lines)
    ELSE NoFile

\* no engine process has ended yet
NoOutcome == [status |-> "", wrote |-> FALSE, report |-> <<>>, stdout |-> "",
              stderr |-> "", cost |-> 0]

\* the engine process of an invocation: its state, the id of the invocation
\* and, once it has ended, how it ended
NoEngine == [state |-> "none", id |-> 0, outcome |-> NoOutcome]
NoRun ==
    [id |-> 0, inputContent |-> NoInput, spawned |-> FALSE, status |-> "",
     sawOutput |-> FALSE, execStdout |-> "", execStderr |-> "",
     thrown |-> Undefined, results |-> ParseCatch("")]
NoRet == [kind |-> "none", results |-> ParseCatch(""), execStdout |-> "",
          execStderr |-> "", inputContent |-> NoInput, error |-> Undefined]
NoResp == [status |-> 0, kind |-> "none"]
NoReq ==
    [route |-> "none", txLat |-> QAbsent, txLon |-> QAbsent, rxLat |-> QAbsent,
     rxLon |-> QAbsent, hour |-> QAbsent, ssn |-> QAbsent, txPower |-> QAbsent,
     frequencies |-> QAbsent, now |-> Undef]

-----------------------------------------------------------------------------
(* runPrediction (lines 194-282) *)

\* lines 195-226: the id is drawn, the input text generated and written, and
\* execSync starts the engine and blocks; a failing writeFileSync throws and
\* may or may not leave a file behind (the scratch directory is taken to
\* exist, so the mkdirSync of line 201 is not reached)
RunBegin ==
    /\ pc = "call"
    /\ \E id \in {FreshId(fs, runLog)}, wr \in {"ok", "throwNoFile", "throwFile"} :
         /\ FaultOK(IF wr = "ok" THEN 0 ELSE 1)
         /\ faults' = faults + (IF wr = "ok" THEN 0 ELSE 1)
         /\ run' = [NoRun EXCEPT !.id = id,
                                 !.inputContent = GenerateInputFile(params),
                                 !.spawned = (wr = "ok"),
                                 !.thrown = IF wr = "ok" THEN Undefined
                                            ELSE ErrorMessage("ENOSPC")]
         /\ fs' = [fs EXCEPT !.input = IF wr = "throwNoFile" THEN @ ELSE @ \cup {id}]
         /\ engine' = IF wr = "ok"
                      THEN [state |-> "running", id |-> id, outcome |-> NoOutcome]
                      ELSE engine
         /\ pc' = IF wr = "ok" THEN "exec" ELSE "finally"
    /\ UNCHANGED <<req, params, hour, hourlyResults, ret, resp, runLog, pvars, inbox, dvars>>

\* line 222 when execSync returns, line 230 when it throws
ExecStdout(o) == o.stdout

\* the catch of lines 228-237 leaving execStderr as it was
ExecStderrDropped(o) == ""

\* line 205 when execSync returns, line 229 when it throws
ExecStderr(o) == IF o.status = "ok" THEN "" ELSE o.stderr

\* lines 222-226: what has become of the engine process when execSync is
\* over. cmd is a string, so execSync runs it as /bin/sh -c cmd and its
\* timeout sends SIGTERM to that shell: the engine ends with it when the
\* shell has replaced itself by the engine, and lives on without a parent
\* when the shell ran it as a child
EndStates(o) == IF o.status = "timeout" THEN {"killed", "orphaned"} ELSE {"exited"}

\* lines 221-237: the engine ends or is killed at the timeout while the
\* thread is blocked in execSync; a failed execSync is caught and only
\* recorded
EngineExit ==
    /\ pc = "exec"
    /\ engine.state = "running"
    /\ \E o \in EngineOutcomes, end \in {"exited", "killed", "orphaned"} :
         /\ end \in EndStates(o)
         /\ FaultOK(o.cost)
         /\ faults' = faults + o.cost
         /\ fs' = IF o.wrote
                  THEN [fs EXCEPT !.output =
                          {f \in @ : f.id # run.id} \cup {[id |-> run.id, lines |-> o.report]}]
                  ELSE fs
         /\ engine' = [engine EXCEPT !.state = end, !.outcome = o]
         /\ run' = [run EXCEPT !.status = o.status,
                               !.execStdout = ExecStdout(o),
                               !.execStderr = ExecStderr(o)]
    /\ pc' = "afterExec"
    /\ UNCHANGED <<req, params, hour, hourlyResults, ret, resp, runLog, pvars, inbox, dvars>>

\* lines 242-271: the output file is inspected (readFileSync, statSync or
\* readdirSync may throw) and parsed
RunParse ==
    /\ pc = "afterExec"
    /\ \E insp \in {"ok", "throw"} :
         /\ FaultOK(IF insp = "ok" THEN 0 ELSE 1)
         /\ faults' = faults + (IF insp = "ok" THEN 0 ELSE 1)
         /\ run' = [run EXCEPT !.sawOutput = OutputExists(run.id),
                               !.thrown = IF insp = "ok" THEN Undefined
                                          ELSE ErrorMessage("EACCES"),
                               !.results = IF insp = "ok"
                                           THEN ParseOutputFile(OutputFile(run.id))
                                           ELSE @]
    /\ pc' = "finally"
    /\ UNCHANGED <<req, params, hour, hourlyResults, ret, fs, engine, resp, runLog, pvars, inbox, dvars>>

\* a cleanup that empties the scratch directory
CleanupAll(files, id) == [input |-> {}, output |-> {}]

\* lines 276-277 when no unlinkSync throws
Cleanup(files, id) ==
    [input |-> files.input \ {id}, output |-> {f \in files.output : f.id # id}]

\* lines 273-281: the finally block; an unlinkSync that throws ends the
\* block (the catch ignores it), then runPrediction returns or rethrows
RunCleanup ==
    /\ pc = "finally"
    /\ \E un \in {"ok", "inputThrows", "outputThrows"} :
         /\ FaultOK(IF un = "ok" THEN 0 ELSE 1)
         /\ un = "inputThrows" => InputExists(run.id)
         /\ un = "outputThrows" => OutputExists(run.id)
         /\ faults' = faults + (IF un = "ok" THEN 0 ELSE 1)
         /\ fs' = CASE un = "ok" -> Cleanup(fs, run.id)
                    [] un = "inputThrows" -> fs
                    [] un = "outputThrows" -> [fs EXCEPT !.input = @ \ {run.id}]
    /\ ret' = IF run.thrown # Undefined
              THEN [NoRet EXCEPT !.kind = "throw", !.error = run.thrown]
              ELSE [NoRet EXCEPT !.kind = "return", !.results = run.results,
                                 !.execStdout = run.execStdout,
                                 !.execStderr = run.execStderr,
                                 !.inputContent = run.inputContent]
    /\ runLog' = Append(runLog, [id |-> run.id, hour |-> params.hour,
                                 spawned |-> run.spawned, status |-> run.status,
                                 sawOutput |-> run.sawOutput,
                                 threw |-> run.thrown # Undefined])
    /\ pc' = "returned"
    /\ UNCHANGED <<req, params, hour, hourlyResults, run, engine, resp, pvars, inbox, dvars>>

-----------------------------------------------------------------------------
(* BandMapper of /api/bands (lines 609-629) *)

\* the test of line 615 with <= in place of <
WithinOneInclusive(bandFreq, f) ==
    f.k = "num" /\ bandFreq - f.v <= 1000 /\ f.v - bandFreq <= 1000

\* line 615: Math.abs(freq - freqResult.freq) < 1
WithinOne(bandFreq, f) ==
    f.k = "num" /\ bandFreq - f.v < 1000 /\ f.v - bandFreq < 1000

\* lines 614-616: index of the band bandFreqs.find returns, 0 for undefined
FindBand(f) ==
    IF \E i \in 1..Len(BandFreqs) : WithinOne(BandFreqs[i], f)
    THEN CHOOSE i \in 1..Len(BandFreqs) :
            /\ WithinOne(BandFreqs[i], f)
            /\ \A j \in 1..(i - 1) : ~WithinOne(BandFreqs[j], f)
    ELSE 0

\* x > n for a number in thousandths
MoreThan(x, n) == (x.k = "inf" /\ x.v > 0) \/ (x.k = "num" /\ x.v > n * 1000)

\* x >= n for a number in thousandths; false for NaN
AtLeast(x, n) == (x.k = "inf" /\ x.v > 0) \/ (x.k = "num" /\ x.v >= n * 1000)

\* lines 625-626
BandStatus(reliability) ==
    IF AtLeast(reliability, 70) THEN "GOOD"
    ELSE IF AtLeast(reliability, 40) THEN "FAIR"
    ELSE "POOR"

NoBand == [present |-> FALSE, freq |-> Undef, reliability |-> Undef,
           snr |-> Undef, sdbw |-> Undef, status |-> ""]

\* lines 620-627
BandEntry(fr) ==
    [present |-> TRUE, freq |-> fr.freq, reliability |-> fr.reliability,
     snr |-> fr.snr, sdbw |-> fr.sdbw, status |-> BandStatus(fr.reliability)]

\* lines 610-629: the bands object after the loop over results.frequencies
RECURSIVE MapBands(_, _, _)
MapBands(bands, freqs, i) ==
    IF i > Len(freqs) THEN bands
    ELSE IF FindBand(freqs[i].freq) = 0 THEN MapBands(bands, freqs, i + 1)
    ELSE MapBands([bands EXCEPT ![FindBand(freqs[i].freq)] = BandEntry(freqs[i])],
                  freqs, i + 1)

NoBands == [i \in 1..Len(BandNames) |-> NoBand]

-----------------------------------------------------------------------------
(* The handlers *)

\* the loop bound of line 543
HoursPerDay == 24

\* lines 547-551
HourlyPush(results, h, r) ==
    Append(results, [hour |-> h, muf |-> r.muf, hasFrequencies |-> TRUE,
                     frequencies |-> r.frequencies, error |-> Undefined])

\* the catch of lines 552-557 leaving the array as it is
HourlyCatchDropped(results, h, message) == results

\* lines 552-557
HourlyCatch(results, h, message) ==
    Append(results, [hour |-> h, muf |-> Undef, hasFrequencies |-> FALSE,
                     frequencies |-> <<>>, error |-> message])

\* the loop of line 543 left at the first hour that threw
HourAfterAbort(kind, h) == IF kind = "throw" THEN HoursPerDay ELSE h + 1

\* line 543: hour++ follows the try statement whichever branch ran
HourAfter(kind, h) == h + 1

\* lines 479, 527, 592
BadRequest == [status |-> 400, kind |-> "error",
               error |-> "Missing required coordinates"]

\* lines 506-509, 573-576, 646-649
ServerError(message) == [status |-> 500, kind |-> "error", error |-> message]

\* lines 468-498, 517-544 (up to the loop), 584-607: the handler runs from
\* the arrival of a request of Q to its first call of runPrediction or to
\* the 400 response
ReceiveFrom(Q) ==
    /\ pc = "idle"
    /\ \E q \in Q :
         IF MissingCoords(q)
         THEN /\ req' = [q EXCEPT !.now = Undef]
              /\ resp' = BadRequest
              /\ pc' = "responded"
              /\ UNCHANGED <<params, hour, hourlyResults>>
         ELSE IF q.route = "hourly"
         THEN /\ req' = [q EXCEPT !.now = Undef]
              /\ hour' = 0
              /\ hourlyResults' = <<>>
              /\ pc' = "loop"
              /\ UNCHANGED <<params, resp>>
         ELSE \E now \in (IF ReadsClock(q) THEN {Num(h) : h \in UtcHours} ELSE {Undef}) :
              /\ req' = [q EXCEPT !.now = now]
              /\ params' = SingleParams(q, now)
              /\ pc' = "call"
              /\ UNCHANGED <<hour, hourlyResults, resp>>
    /\ UNCHANGED <<run, ret, fs, engine, faults, runLog, pvars, inbox, dvars>>

\* lines 543-546: the next iteration calls runPrediction
HourlyIterate ==
    /\ pc = "loop"
    /\ hour < HoursPerDay
    /\ params' = HourlyParams(req, hour)
    /\ pc' = "call"
    /\ UNCHANGED <<req, hour, hourlyResults, run, ret, fs, engine, resp, faults, runLog, pvars, inbox, dvars>>

\* lines 546-558: the call returned or threw (its locals are gone); the
\* entry is pushed
HourlyCollect ==
    /\ pc = "returned"
    /\ req.route = "hourly"
    /\ hourlyResults' = IF ret.kind = "throw"
                        THEN HourlyCatch(hourlyResults, hour, ret.error)
                        ELSE HourlyPush(hourlyResults, hour, ret.results)
    /\ hour' = HourAfter(ret.kind, hour)
    /\ pc' = "loop"
    /\ run' = NoRun
    /\ UNCHANGED <<req, params, ret, fs, engine, resp, faults,
                   runLog, pvars, inbox, dvars>>

\* lines 560-571
HourlyRespond ==
    /\ pc = "loop"
    /\ hour >= HoursPerDay
    /\ resp' = [status |-> 200, kind |-> "hourly", ssn |-> SsnParam(req),
                hourly |-> hourlyResults]
    /\ pc' = "responded"
    /\ UNCHANGED <<req, params, hour, hourlyResults, run, ret, fs, engine, faults, runLog, pvars, inbox, dvars>>

\* lines 498-509
PredictRespond ==
    /\ pc = "returned"
    /\ req.route = "predict"
    /\ resp' = IF ret.kind = "throw" THEN ServerError(ret.error)
               ELSE [status |-> 200, kind |-> "predict",
                     frequencies |-> ret.results.frequencies,
                     muf |-> ret.results.muf, error |-> ret.results.error,
                     hasRaw |-> ret.results.hasRaw,
                     execStdout |-> ret.execStdout, execStderr |-> ret.execStderr,
                     inputContent |-> ret.inputContent]
    /\ pc' = "responded"
    /\ run' = NoRun
    /\ UNCHANGED <<req, params, hour, hourlyResults, ret, fs, engine, faults, runLog, pvars, inbox, dvars>>

\* lines 607-649
BandsRespond ==
    /\ pc = "returned"
    /\ req.route = "bands"
    /\ resp' = IF ret.kind = "throw" THEN ServerError(ret.error)
               ELSE [status |-> 200, kind |-> "bands", muf |-> ret.results.muf,
                     bands |-> MapBands(NoBands, ret.results.frequencies, 1),
                     hasRaw |-> ret.results.hasRaw,
                     parsedFreqs |-> ret.results.frequencies,
                     execStdout |-> ret.execStdout, execStderr |-> ret.execStderr]
    /\ pc' = "responded"
    /\ run' = NoRun
    /\ UNCHANGED <<req, params, hour, hourlyResults, ret, fs, engine, faults, runLog, pvars, inbox, dvars>>

\* the response is on the wire; the service waits for the next request.
\* Files the request left in the scratch directory carry ids that are never
\* drawn again: they leave the model with the request, and the count of
\* injected failures starts again
Finish ==
    /\ pc = "responded"
    /\ pc' = "idle"
    /\ req' = NoReq
    /\ params' = NoParams
    /\ hour' = 0
    /\ hourlyResults' = <<>>
    /\ run' = NoRun
    /\ ret' = NoRet
    /\ engine' = NoEngine
    /\ resp' = NoResp
    /\ runLog' = <<>>
    /\ fs' = [input |-> {}, output |-> {}]
    /\ faults' = 0
    /\ UNCHANGED <<pvars, inbox, dvars>>

ParserIdle ==
    /\ pfile = NoFile
    /\ ppc = "off"
    /\ pidx = 0
    /\ inDataSection = FALSE
    /\ pfreqs = <<>>
    /\ presult = ParseCatch("")

ServiceIdle ==
    /\ pc = "idle"
    /\ req = NoReq
    /\ params = NoParams
    /\ hour = 0
    /\ hourlyResults = <<>>
    /\ run = NoRun
    /\ ret = NoRet
    /\ fs = [input |-> {}, output |-> {}]
    /\ engine = NoEngine
    /\ resp = NoResp
    /\ faults = 0
    /\ runLog = <<>>

Receive == ReceiveFrom(Queries)

LoopIdle == inbox = 0

\* no request for DX spots is being handled
DxIdle ==
    /\ dpc = "idle"
    /\ dsrc = 0
    /\ dlog = <<>>
    /\ dres = <<>>

Init == ServiceIdle /\ ParserIdle /\ LoopIdle /\ DxIdle

Next ==
    \/ Receive
    \/ RunBegin
    \/ EngineExit
    \/ RunParse
    \/ RunCleanup
    \/ HourlyIterate
    \/ HourlyCollect
    \/ HourlyRespond
    \/ PredictRespond
    \/ BandsRespond
    \/ Finish

Spec == Init /\ [][Next]_vars

-----------------------------------------------------------------------------
(* parseOutputFile step by step (specification SpecParse) *)

\* the lines a report of the model is made of
LineVocabulary ==
    {HeaderLine, FooterLine, BannerLine, DashLine, BlankLine, MufLine, RowA,
     RowB, RowShort, RowZero}

RECURSIVE SeqsUpTo(_, _)
SeqsUpTo(S, n) ==
    IF n = 0 THEN {<<>>}
    ELSE SeqsUpTo(S, n - 1) \cup
         {Append(t, x) : t \in {u \in SeqsUpTo(S, n - 1) : Len(u) = n - 1}, x \in S}

\* the lines of a report with damaged rows
DamagedVocabulary ==
    {HeaderLine, FooterLine, RowB, RowInf, RowDash, RowStar,
     \* a frequency that is not a number, a negative frequency
     <<"02", ",", SP, "05", ",", SP, "abc", ",", "-", "98.50", ",",
       SP, "22.10", ",", SP, "85.30">>,
     <<"02", ",", SP, "05", ",", SP, "-", "7.100", ",", "-", "98.50", ",",
       SP, "22.10", ",", SP, "85.30">>}


\* the texts of 1 to MaxLines lines over a set of lines (the empty text
\* splits into one empty line)
ReportsOver(V) == {TextFile(ls) : ls \in SeqsUpTo(V, MaxLines) \ {<<>>}}

\* what can be found at outputPath: a text over either set of lines, no
\* file, or a file that cannot be read
IsReportFile(file) ==
    \/ \E V \in {LineVocabulary, DamagedVocabulary} : file \in ReportsOver(V)
    \/ file \in {NoFile, DeniedFile}

\* lines 126-135: readFileSync and split, or the catch block when it throws
ParseRead ==
    /\ ppc = "start"
    /\ IF pfile.err # ""
       THEN /\ presult' = ParseCatch(pfile.err)
            /\ ppc' = "done"
            /\ UNCHANGED <<pidx, inDataSection, pfreqs>>
       ELSE /\ ppc' = "scan"
            /\ pidx' = 1
            /\ inDataSection' = FALSE
            /\ pfreqs' = <<>>
            /\ UNCHANGED presult
    /\ UNCHANGED <<pfile, svars, inbox, dvars>>

\* lines 137-175: one iteration of the for loop
ParseScan ==
    /\ ppc = "scan"
    /\ pidx <= Len(pfile.lines)
    /\ LET st == ScanLine([inData |-> inDataSection, freqs |-> pfreqs, done |-> FALSE],
                          pfile.lines[pidx])
       IN  /\ inDataSection' = st.inData
           /\ pfreqs' = st.freqs
           /\ ppc' = IF st.done THEN "break" ELSE "scan"
           /\ pidx' = IF st.done THEN pidx ELSE pidx + 1
    /\ UNCHANGED <<pfile, presult, svars, inbox, dvars>>

\* lines 177-184: after the loop ended or was left by break
ParseFinish ==
    /\ \/ ppc = "break"
       \/ ppc = "scan" /\ pidx > Len(pfile.lines)
    /\ presult' = ParseReturn(pfreqs, pfile.lines)
    /\ ppc' = "done"
    /\ UNCHANGED <<pfile, pidx, inDataSection, pfreqs, svars, inbox, dvars>>

InitParse ==
    /\ ServiceIdle
    /\ LoopIdle
    /\ DxIdle
    /\ IsReportFile(pfile)
    /\ ppc = "start"
    /\ pidx = 0
    /\ inDataSection = FALSE
    /\ pfreqs = <<>>
    /\ presult = ParseCatch("")

NextParse == ParseRead \/ ParseScan \/ ParseFinish

SpecParse == InitParse /\ [][NextParse]_vars

-----------------------------------------------------------------------------
(* The thread and the requests that wait for it (specification SpecLoop) *)

\* the prediction requests of SpecLoop: /api/predict with its four
\* coordinates and nothing else
LoopQueries ==
    {q \in Queries :
        q.route = "predict" /\ ~MissingCoords(q) /\ NonFinite(q) = {}
        /\ GivenOptionals(q) = 0}

LoopReceive == ReceiveFrom(LoopQueries)

\* a GET /api/health reaches the listening socket (line 653); this needs no
\* JavaScript to run and happens whatever the thread is doing
HealthArrive ==
    /\ inbox < MaxPending
    /\ inbox' = inbox + 1
    /\ UNCHANGED <<svars, pvars, dvars>>

\* lines 291-319: the event loop takes the request and the handler runs to
\* its res.json; callbacks run one at a time on the one thread, so this
\* needs the thread to be back in the event loop. execSync (line 222) keeps
\* the thread until the engine has ended, and the continuation of an await
\* on runPrediction, which never suspends inside, is a microtask that runs
\* before the event loop takes anything new
HealthServe ==
    /\ pc = "idle"
    /\ inbox > 0
    /\ inbox' = inbox - 1
    /\ UNCHANGED <<svars, pvars, dvars>>

InitLoop == Init

NextLoop ==
    \/ LoopReceive
    \/ RunBegin
    \/ EngineExit
    \/ RunParse
    \/ RunCleanup
    \/ PredictRespond
    \/ Finish
    \/ HealthArrive
    \/ HealthServe

SpecLoop == InitLoop /\ [][NextLoop]_vars

-----------------------------------------------------------------------------
(* GET /api/dxcluster/spots of the proxy server (specification SpecDx) *)

\* the sources in the order of their try blocks
DxSources == <<"DXHeat", "PSKReporter", "HamQTH", "DXWatch">>

\* .slice(0, 20)
SpotLimit == 20

\* Array.prototype.slice(0, n)
Take(list, n) == SubSeq(list, 1, IF Len(list) < n THEN Len(list) ELSE n)

\* The entries a source sends are numbers: n > 0 is the n-th usable spot, 0
\* is an entry the handler cannot use (a null element of a JSON array, a
\* HamQTH line without call or frequency).
DxLists ==
    {<<>>, <<1>>, <<0>>, <<1, 0>>, <<0, 2>>, [i \in 1..(SpotLimit + 1) |-> i]}

\* a text that is not JSON, JSON without the expected array, JSON with it
JsonBodies ==
    {[shape |-> "garbage", items |-> <<>>], [shape |-> "other", items |-> <<>>]}
        \cup {[shape |-> "list", items |-> l] : l \in DxLists}

\* what response.text() can resolve to, for each source
DxBodies(source) ==
    CASE source = "DXHeat" -> JsonBodies
      [] source = "PSKReporter" ->
             \* the senderCallsign="..." matches of the text
             {[shape |-> "list", items |-> l] : l \in {m \in DxLists : \A i \in 1..Len(m) : m[i] # 0}}
      [] source = "HamQTH" ->
             \* the lines of the text that are not blank
             {[shape |-> "list", items |-> l] : l \in DxLists}
      [] source = "DXWatch" -> JsonBodies

\* Array.prototype.map over the entries: the object built for each
MapSpots(source, items) ==
    [i \in 1..Len(items) |-> [source |-> source, n |-> items[i]]]

\* how the try block of a source ends: kind is "spots" with the spots to
\* send, or the way it failed
DxFailed(kind) == [kind |-> kind, spots |-> <<>>]
DxYield(spots) == [kind |-> "spots", spots |-> spots]

\* lines 134-149 (DXHeat) and 237-252 (DXWatch): JSON.parse, the test of the
\* array, map over every element, slice; an exception of JSON.parse or of
\* the map callback ends in the inner catch
JsonOutcome(source, body) ==
    IF body.shape = "garbage" THEN DxFailed("parseFailed")
    ELSE IF body.shape # "list" \/ body.items = <<>> THEN DxFailed("noSpots")
    ELSE IF \E i \in 1..Len(body.items) : body.items[i] = 0
         THEN DxFailed("parseFailed")
    ELSE DxYield(Take(MapSpots(source, body.items), SpotLimit))

\* lines 167-186: the matches, sliced and mapped
PskOutcome(body) ==
    IF body.items = <<>> THEN DxFailed("noSpots")
    ELSE DxYield(MapSpots("PSKReporter", Take(body.items, SpotLimit)))

\* lines 201-219: the lines, sliced, mapped and filtered
HamQthOutcome(body) ==
    LET spots == SelectSeq(MapSpots("HamQTH", Take(body.items, SpotLimit)),
                           LAMBDA spot : spot.n # 0)
    IN  IF body.items = <<>> \/ spots = <<>> THEN DxFailed("noSpots")
        ELSE DxYield(spots)

DxOutcome(source, body) ==
    CASE source = "DXHeat" -> JsonOutcome(source, body)
      [] source = "PSKReporter" -> PskOutcome(body)
      [] source = "HamQTH" -> HamQthOutcome(body)
      [] source = "DXWatch" -> JsonOutcome(source, body)

\* the try block answers whatever the source sent with status OK
DxAnswersWhenOk(o) == o.kind \in {"spots", "noSpots"}

\* lines 145, 185, 217, 248: return res.json(spots)
DxAnswers(o) == o.kind = "spots"

\* the try block of source dsrc ends as o: the handler answers and returns,
\* or goes on to the fetch of the next try block, or reaches line 260;
\* res.json sends status 200 and the body
DxEnd(o) ==
    LET log == [dlog EXCEPT ![Len(dlog)].kind = o.kind] IN
    IF DxAnswers(o)
    THEN /\ dres' = Append(dres, [status |-> 200, body |-> o.spots])
         /\ dlog' = log
         /\ dpc' = "done"
         /\ UNCHANGED dsrc
    ELSE IF dsrc < Len(DxSources)
    THEN /\ dsrc' = dsrc + 1
         /\ dlog' = Append(log, [source |-> DxSources[dsrc + 1], kind |-> "pending"])
         /\ dpc' = "fetch"
         /\ UNCHANGED dres
    ELSE /\ dres' = Append(dres, [status |-> 200, body |-> <<>>])
         /\ dlog' = log
         /\ dpc' = "done"
         /\ UNCHANGED dsrc

\* lines 119-124: a request arrives and the handler runs to its first await.
\* The handler keeps everything in locals, so requests do not touch each
\* other; one request at a time is followed.
DxReceive ==
    /\ dpc \in {"idle", "done"}
    /\ dpc' = "fetch"
    /\ dsrc' = 1
    /\ dlog' = <<[source |-> DxSources[1], kind |-> "pending"]>>
    /\ dres' = <<>>
    /\ UNCHANGED <<svars, pvars, inbox>>

\* lines 124-131, 157-163, 194-198, 227-234: the promise of fetch settles:
\* it rejects (outer catch), or resolves to a response that is OK or not
DxFetchSettles ==
    /\ dpc = "fetch"
    /\ \E f \in {"rejects", "notOK", "ok"} :
           IF f = "ok"
           THEN dpc' = "text" /\ UNCHANGED <<dsrc, dlog, dres>>
           ELSE DxEnd(DxFailed(IF f = "rejects" THEN "threw" ELSE "notOK"))
    /\ UNCHANGED <<svars, pvars, inbox>>

\* lines 132, 164, 199, 235: the promise of response.text() settles: it
\* rejects (outer catch), or resolves and the rest of the try block runs
DxTextSettles ==
    /\ dpc = "text"
    /\ \/ DxEnd(DxFailed("threw"))
       \/ \E body \in DxBodies(DxSources[dsrc]) :
              DxEnd(DxOutcome(DxSources[dsrc], body))
    /\ UNCHANGED <<svars, pvars, inbox>>

NextDx ==
    \/ DxReceive
    \/ DxFetchSettles
    \/ DxTextSettles

\* the continuation of an await runs once its promise has settled; that the
\* promises of fetch and of response.text() settle is taken from node-fetch
SpecDx ==
    /\ Init
    /\ [][NextDx]_vars
    /\ WF_vars(DxFetchSettles)
    /\ WF_vars(DxTextSettles)

-----------------------------------------------------------------------------
(* Properties of runPrediction and of the handlers (specification Spec) *)

\* a runPrediction call of the current request has begun
RunStarted == run.id # 0

\* the request lacks one of the four coordinates (not given, or given empty)
LacksCoordinate(q) == \E c \in CoordNames : ~q[c].given \/ q[c].text = <<>>

\* C1: once runPrediction has returned or thrown, neither input_<id>.txt nor
\* output_<id>.txt of that invocation exists in the scratch directory, on
\* every exit path, a failing unlinkSync included.
C1_ScratchFilesGone ==
    pc = "returned" => (run.id \notin fs.input /\ \A f \in fs.output : f.id # run.id)

\* C2: the hourly list of a /predict/hourly response has exactly 24 entries
\* and the entry at position i carries hour i, whichever hours failed.
C2_HourlyPositions ==
    resp.kind = "hourly" =>
        /\ Len(resp.hourly) = 24
        /\ \A i \in 1..Len(resp.hourly) : resp.hourly[i].hour = i - 1

\* a response in which exactly the hours 3 and 17 carry errors
C2_Witness ==
    /\ resp.kind = "hourly"
    /\ {i \in 1..Len(resp.hourly) : resp.hourly[i].error # Undefined} = {4, 18}
    /\ \A i \in 1..Len(resp.hourly) : i \notin {4, 18} => resp.hourly[i].hasFrequencies

\* the i-th run of the request failed: it threw, the engine timed out, or no
\* report file was there after the engine ended
RunFailed(log) == log.threw \/ log.status = "timeout" \/ ~log.sawOutput

\* C3: in the hourly result every hour whose run failed is an error entry
\* with a non-empty message and every hour whose run succeeded is a result
\* entry without error.
C3_FailedHoursCarryErrors ==
    resp.kind = "hourly" =>
        \A i \in 1..Len(resp.hourly) :
            i <= Len(runLog) =>
                IF RunFailed(runLog[i])
                THEN /\ ~resp.hourly[i].hasFrequencies
                     /\ resp.hourly[i].error \notin {Undefined, ""}
                ELSE /\ resp.hourly[i].hasFrequencies
                     /\ resp.hourly[i].error = Undefined

\* the calls of runPrediction made for an hourly response: one per hour, in
\* ascending order
OneRunPerHour ==
    /\ Len(runLog) = 24
    /\ \A i \in 1..Len(runLog) : runLog[i].hour = Num(i - 1)

\* C4 as stated: an hourly request runs the pipeline once per hour 0..23,
\* with 24 engine invocations in all, and is never answered with a failure.
C4_EngineRunsEveryHour ==
    /\ resp.kind = "hourly" =>
          (OneRunPerHour /\ \A i \in 1..Len(runLog) : runLog[i].spawned)
    /\ (pc = "responded" /\ req.route = "hourly" /\ ~LacksCoordinate(req)) =>
          resp.status = 200

\* C4 amended: an hourly request calls runPrediction once per hour 0..23 in
\* ascending order, a call spawns the engine unless it throws before execSync
\* (writing its input file failed), a failure at hour h does not keep the
\* later hours from running and the request is never answered with a failure.
C4_OneRunPerHour ==
    /\ resp.kind = "hourly" =>
          (OneRunPerHour /\ \A i \in 1..Len(runLog) : runLog[i].spawned \/ runLog[i].threw)
    /\ (pc = "responded" /\ req.route = "hourly" /\ ~LacksCoordinate(req)) =>
          (resp.status = 200 /\ resp.kind = "hourly")

\* an hourly response after the run of hour 3 threw
C4_Witness ==
    /\ resp.kind = "hourly"
    /\ resp.status = 200
    /\ Len(runLog) = 24
    /\ runLog[4].threw
    /\ runLog[5].spawned

\* C7: for an integer hour in 0..23 the generated text carries Path.hour 24
\* when the hour is 0 and Path.hour h when the hour is h in 1..23.
C7_PathHour ==
    (RunStarted /\ params.hour.k = "num" /\ params.hour.v \in 0..23) =>
        run.inputContent.pathHour =
            (IF params.hour.v = 0 THEN Num(24) ELSE Num(params.hour.v))

\* hour 0 of an hourly request was serialized
C7_Witness ==
    /\ RunStarted
    /\ params.hour = Num(0)
    /\ run.inputContent.pathHour = Num(24)

\* C8: a /predict or /bands request that gives hour=0 produces an input file
\* whose Path.hour is 24, whatever the clock shows.
C8_ExplicitHourZero ==
    (RunStarted /\ req.route \in {"predict", "bands"} /\ req.hour = QText(<<"0">>)) =>
        run.inputContent.pathHour = Num(24)

\* C9: in a /predict request an absent hour becomes the current UTC hour
\* (UTC hour 0 written as 24), an absent ssn 100, an absent txPower 100, and
\* a parameter that is given is used as given (ssn=0 stays 0).
C9_Defaults ==
    (RunStarted /\ req.route = "predict") =>
        /\ (req.hour = QAbsent /\ req.now.k = "num") =>
              run.inputContent.pathHour =
                  (IF req.now.v = 0 THEN Num(24) ELSE req.now)
        /\ req.hour = QText(<<"7">>) => run.inputContent.pathHour = Num(7)
        /\ req.ssn = QAbsent => run.inputContent.pathSSN = Num(100)
        /\ req.ssn = QText(<<"50">>) => run.inputContent.pathSSN = Num(50)
        /\ req.ssn = QText(<<"0">>) => run.inputContent.pathSSN = Num(0)
        /\ req.txPower = QAbsent => run.inputContent.txPower = Num(100)
        /\ req.txPower = QText(<<"1000">>) => run.inputContent.txPower = Num(1000)

\* C10: a request that lacks one of txLat, txLon, rxLat, rxLon is answered
\* with a 400-class status; no input file is written and no engine process
\* is spawned for it.
C10_MissingCoordinates ==
    (req.route \in Routes /\ LacksCoordinate(req)) =>
        /\ pc = "responded"
        /\ resp.status \in 400..499
        /\ fs.input = {}
        /\ fs.output = {}
        /\ engine.state = "none"
        /\ ~RunStarted

\* a /bands request without rxLon, its other coordinates given, was refused
C10_Witness ==
    /\ pc = "responded"
    /\ req.route = "bands"
    /\ req.txLat.given /\ req.txLat.text # <<>>
    /\ req.txLon.given /\ req.txLon.text # <<>>
    /\ req.rxLat.given /\ req.rxLat.text # <<>>
    /\ ~req.rxLon.given
    /\ resp.status = 400

\* no input file, no output file and no engine process belongs to the request
NothingStarted ==
    /\ ~RunStarted
    /\ fs.input = {}
    /\ fs.output = {}
    /\ engine.state = "none"

\* C11: a request in which one of txLat, txLon, rxLat, rxLon is given but is
\* not the text of a finite number is answered with a 400-class status
\* before any input file is written or any engine is spawned, and no input
\* file carries a coordinate that is not a finite number.
C11_NonFiniteCoordinates ==
    /\ (req.route \in Routes /\ NonFinite(req) # {}) =>
          (pc = "responded" /\ resp.status \in 400..499 /\ NothingStarted)
    /\ RunStarted => \A c \in CoordNames : run.inputContent[c].k = "num"

\* a probe frequency of 2 to 30 MHz
InHfRange(f) == f.k = "num" /\ f.v >= 2000 /\ f.v <= 30000

\* C12: every probe frequency of an input file lies within 2 to 30 MHz: a
\* /predict request whose frequencies parameter holds a value below 2, above
\* 30 or not a number is answered with a 400-class status before anything
\* is written, and the band table holds only values within 2 to 30.
C12_ProbeFrequenciesInRange ==
    /\ RunStarted =>
          \A i \in 1..Len(run.inputContent.frequencies) :
              InHfRange(run.inputContent.frequencies[i])
    /\ (req.route = "predict" /\ ~QMissing(req.frequencies)
        /\ \E i \in 1..Len(ParseFrequencies(req.frequencies.text)) :
              ~InHfRange(ParseFrequencies(req.frequencies.text)[i])) =>
          (pc = "responded" /\ resp.status \in 400..499 /\ NothingStarted)
    /\ \A i \in 1..Len(HfBandValues) : InHfRange(HfBandValues[i])

\* the engine of the logged run was started and left no output file
NoReport(log) == log.spawned /\ ~log.sawOutput

\* C13: when the engine leaves no output file the single-point run fails and
\* /predict answers with a 500-class status; a 200 response with an empty
\* frequency list is given only when a report file was read and held no
\* rows.
C13_NoReportIsFailure ==
    (pc = "responded" /\ req.route = "predict" /\ Len(runLog) = 1) =>
        /\ NoReport(runLog[1]) => (resp.kind = "error" /\ resp.status \in 500..599)
        /\ (resp.status = 200 /\ resp.frequencies = <<>>) => runLog[1].sawOutput

\* the error field of a response body: set in the error bodies and in the
\* /predict body, which spreads the results; the /bands and /predict/hourly
\* bodies have no such field
BodyError(r) == IF r.kind \in {"error", "predict"} THEN r.error ELSE Undefined

\* C14: when the engine produced no report, the body of /predict and of
\* /bands carries an error field that is set, and the entry of that hour in
\* the /predict/hourly body carries the error of its run.
C14_FailureBodiesCarryError ==
    /\ (pc = "responded" /\ req.route \in {"predict", "bands"}
        /\ Len(runLog) = 1 /\ NoReport(runLog[1])) =>
          BodyError(resp) # Undefined
    /\ resp.kind = "hourly" =>
          \A i \in 1..Len(resp.hourly) :
              (i <= Len(runLog) /\ NoReport(runLog[i])) =>
                  resp.hourly[i].error # Undefined

\* the output file as the engine of the current invocation left it
EngineReport ==
    IF engine.outcome.wrote THEN TextFile(engine.outcome.report) ELSE NoFile

\* the engine of the current invocation exited with a non-zero status or
\* was killed at the timeout
EngineFailed == run.spawned /\ run.status \in {"nonzero", "timeout"}

\* what the call returns after a failed engine: the parse of the file the
\* engine left and the stdout and stderr of the process
ReturnsParsedReport ==
    /\ ret.results = ParseOutputFile(EngineReport)
    /\ ret.execStdout = engine.outcome.stdout
    /\ ret.execStderr = engine.outcome.stderr

\* C15 as stated: after a non-zero exit or a timeout runPrediction does not
\* fail; it always reads and parses the output file and returns its rows
\* with the captured stdout and stderr.
C15_FailedEngineAlwaysParsed ==
    /\ (pc = "afterExec" /\ EngineFailed) => run.thrown = Undefined
    /\ (pc = "returned" /\ EngineFailed) =>
          (ret.kind = "return" /\ ReturnsParsedReport)

\* C15 amended: after a non-zero exit or a timeout runPrediction does not
\* fail at that point and goes on to inspect and parse the output file; it
\* returns the rows of the file with the captured stdout and stderr unless
\* a file-system call of the inspection itself throws, and then it throws
\* that error.
C15_FailedEngineStillParsed ==
    /\ (pc = "afterExec" /\ EngineFailed) => run.thrown = Undefined
    /\ (pc = "returned" /\ EngineFailed) =>
          IF ret.kind = "return" THEN ReturnsParsedReport
          ELSE ret.error = ErrorMessage("EACCES")

\* an engine killed at the timeout left a partial report; its row came back
\* with the stdout of the process
C15_Witness ==
    /\ pc = "returned"
    /\ run.status = "timeout"
    /\ ret.kind = "return"
    /\ Len(ret.results.frequencies) = 1
    /\ ret.execStdout = "partial"

\* the ids drawn by the calls of the request, the one in progress included,
\* are pairwise distinct
DistinctIds ==
    /\ \A i, j \in 1..Len(runLog) : i # j => runLog[i].id # runLog[j].id
    /\ (RunStarted /\ pc # "returned") =>
          \A i \in 1..Len(runLog) : runLog[i].id # run.id

\* the files of the scratch directory that do not carry the id
FilesOfOthers(files, id) ==
    [input |-> files.input \ {id}, output |-> {f \in files.output : f.id # id}]

\* a step of the service leaves every file alone that does not carry the id
\* of the invocation in progress (when the request is answered its
\* leftovers leave the model)
OwnFilesOnly ==
    pc # "responded" =>
        LET id == IF run'.id # 0 THEN run'.id ELSE run.id
        IN  FilesOfOthers(fs', id) = FilesOfOthers(fs, id)

C18_TimedOutEngineTerminated ==
    (pc = "returned" /\ run.spawned /\ run.status = "timeout") =>
        /\ engine.state \notin {"running", "orphaned"}
        /\ (ret.kind = "throw" \/ ret.results.error # Undefined)

\* the frequency is less than 1 MHz away from the nominal frequency of band b
NearBand(b, f) == f.k = "num" /\ (f.v - BandFreqs[b]) \in (0 - 999)..999

\* the parsed entries, by position, that are less than 1 MHz away from band b
Qualifying(entries, b) == {i \in 1..Len(entries) : NearBand(b, entries[i].freq)}

\* the least element of a non-empty set of positions
First(S) == CHOOSE i \in S : \A j \in S : i <= j

\* what the /bands body holds for a band mapped to the entry
Mapped(entry) ==
    [present |-> TRUE, freq |-> entry.freq, reliability |-> entry.reliability,
     snr |-> entry.snr, sdbw |-> entry.sdbw,
     status |-> IF AtLeast(entry.reliability, 70) THEN "GOOD"
                ELSE IF AtLeast(entry.reliability, 40) THEN "FAIR" ELSE "POOR"]

\* C19: in the /bands result every band that has a parsed entry less than
\* 1 MHz away from its nominal frequency is present and holds the first
\* such entry in result order; a later entry does not replace it, and an
\* entry that is also near an earlier band does not leave the band absent.
C19_FirstEntryWins ==
    resp.kind = "bands" =>
        \A b \in 1..Len(BandNames) :
            Qualifying(resp.parsedFreqs, b) # {} =>
                resp.bands[b] = Mapped(resp.parsedFreqs[First(Qualifying(resp.parsedFreqs, b))])

\* C20: every band present in the /bands result holds a parsed entry whose
\* frequency is less than 1 MHz away from the band's nominal frequency, and
\* a band with no such entry is absent.
C20_PresentBandsAreNear ==
    resp.kind = "bands" =>
        \A b \in 1..Len(BandNames) :
            /\ resp.bands[b].present =>
                  \E i \in Qualifying(resp.parsedFreqs, b) :
                      resp.bands[b] = Mapped(resp.parsedFreqs[i])
            /\ Qualifying(resp.parsedFreqs, b) = {} => resp.bands[b] = NoBand

\* a /bands result with 20m and 80m present and 160m absent although an
\* entry lies exactly 1 MHz above its 2.0 MHz
C20_Witness ==
    /\ resp.kind = "bands"
    /\ resp.bands[6].present
    /\ resp.bands[2].present
    /\ resp.bands[2].freq = Num(3000)
    /\ ~resp.bands[1].present

\* the status the thresholds give to a reliability in thousandths
StatusOf(v) == IF v >= 70000 THEN "GOOD" ELSE IF v >= 40000 THEN "FAIR" ELSE "POOR"

\* C21: the status of a band of the /bands result follows from its
\* reliability alone: GOOD from 70 on, FAIR from 40 to below 70, POOR below
\* 40, with exactly 70 GOOD, 69.99 FAIR, exactly 40 FAIR and 39.99 POOR.
C21_StatusThresholds ==
    resp.kind = "bands" =>
        \A b \in 1..Len(BandNames) :
            (resp.bands[b].present /\ resp.bands[b].reliability.k = "num") =>
                resp.bands[b].status = StatusOf(resp.bands[b].reliability.v)

\* a /bands result with reliabilities of exactly 70, 69.99, exactly 40 and
\* 39.99 on 40m, 17m, 15m and 12m
C21_Witness ==
    /\ resp.kind = "bands"
    /\ resp.bands[4].reliability = Num(70000) /\ resp.bands[4].status = "GOOD"
    /\ resp.bands[7].reliability = Num(69990) /\ resp.bands[7].status = "FAIR"
    /\ resp.bands[8].reliability = Num(40000) /\ resp.bands[8].status = "FAIR"
    /\ resp.bands[9].reliability = Num(39990) /\ resp.bands[9].status = "POOR"

\* C22: the input text carries Path.txpower as 10*log10(P/1000) with one
\* decimal for a transmit power of P watts: -10.0 for 100 W, which is also
\* the power used when txPower is not given, 0.0 for 1000 W (and -17.0 for
\* 20 W, where the second decimal rounds up).
C22_PathTxPower ==
    RunStarted =>
        /\ run.inputContent.txPower = Num(100) =>
              run.inputContent.pathTxPower = Num(0 - 10000)
        /\ run.inputContent.txPower = Num(1000) =>
              run.inputContent.pathTxPower = Num(0)
        /\ run.inputContent.txPower = Num(20) =>
              run.inputContent.pathTxPower = Num(0 - 17000)
        /\ (req.txPower = QAbsent) => run.inputContent.pathTxPower = Num(0 - 10000)
        /\ (req.txPower = QText(<<"1000">>)) => run.inputContent.pathTxPower = Num(0)

\* an input file was generated for txPower=1000
C22_Witness ==
    /\ RunStarted
    /\ req.route = "predict"
    /\ req.txPower = QText(<<"1000">>)
    /\ run.inputContent.pathTxPower = Num(0)

-----------------------------------------------------------------------------
(* Properties of the event loop (specification SpecLoop) *)

\* C16: while a prediction request waits for its engine process to end, a
\* request that has nothing to do with it (GET /api/health) can be taken up
\* and answered: the wait does not keep the service from other work.
C16_WaitDoesNotBlock ==
    (engine.state = "running" /\ inbox > 0) => ENABLED HealthServe

-----------------------------------------------------------------------------
(* Properties of parseOutputFile (specification SpecParse) *)

\* the report holds no line that opens the table, or cannot be read at all
NoTable(file) ==
    file.err # "" \/ \A i \in 1..Len(file.lines) : ~IsHeader(Trim(file.lines[i]))

\* C5: for a report that is missing, unreadable, empty or without a
\* 'Calculated Parameters' table, parseOutputFile returns an empty frequency
\* list and an error field set to a message.
C5_DegradedReportCarriesError ==
    (ppc = "done" /\ NoTable(pfile)) =>
        /\ presult.frequencies = <<>>
        /\ presult.error \notin {Undefined, ""}

\* the line the for loop is at
CurrentLine == pfile.lines[pidx]

\* a record is pushed by the step
RecordPushed == Len(pfreqs') > Len(pfreqs)

\* the text holds 'Calculated Parameters' and not 'End'
OpensTable(line) ==
    /\ \E i \in 1..(Len(line) - 2) :
           SubSeq(line, i, i + 2) = <<"Calculated", SP, "Parameters">>
    /\ \A i \in 1..Len(line) : line[i] # "End"

\* the first character of the line that is not a blank, "" when there is none
FirstVisible(line) ==
    IF \A i \in 1..Len(line) : line[i] = SP THEN ""
    ELSE line[CHOOSE i \in 1..Len(line) :
                  line[i] # SP /\ \A j \in 1..(i - 1) : line[j] = SP]

\* C23: a record is only ever produced from a line that follows the first
\* line with 'Calculated Parameters' and without 'End', is not such a line
\* itself, is not empty and does not start with '*' or '-', scanned while
\* the parser is inside the table.
C23_RecordsOnlyInsideTable ==
    [][RecordPushed =>
          /\ ppc = "scan"
          /\ inDataSection
          /\ \E h \in 1..(pidx - 1) : OpensTable(pfile.lines[h])
          /\ ~OpensTable(CurrentLine)
          /\ FirstVisible(CurrentLine) \notin {"", "*", "-"}
          /\ Len(pfreqs') = Len(pfreqs) + 1]_vars

\* of two equal rows around the header only the one after it was recorded,
\* and rows starting with '-' and '*' inside the table were not
C23_Witness ==
    /\ ppc = "done"
    /\ pfile \in {TextFile(<<RowB, HeaderLine, RowB>>),
                  TextFile(<<HeaderLine, RowDash, RowStar, RowB>>)}
    /\ Len(presult.frequencies) = 1

\* the text holds 'End Calculated' or five asterisks in a row
IsMarker(line) ==
    \/ \E i \in 1..(Len(line) - 2) : SubSeq(line, i, i + 2) = <<"End", SP, "Calculated">>
    \/ \E i \in 1..(Len(line) - 4) : \A j \in i..(i + 4) : line[j] = "*"

\* the for loop is at a line of the report
AtLine == ppc = "scan" /\ pidx <= Len(pfile.lines)

\* C24: the loop is left by break only at a line with 'End Calculated' or a
\* banner of asterisks, inside the table, with at least one record collected;
\* such a line met while the record list is empty, inside or outside the
\* table, lets the loop go on to the next line, and a well-formed row scanned
\* inside the table after it is still appended.
C24_BoundaryEndsOnlyAfterRecord ==
    [][AtLine =>
          /\ ppc' = "break" =>
                 IsMarker(CurrentLine) /\ inDataSection /\ pfreqs # <<>>
          /\ IsMarker(CurrentLine) /\ pfreqs = <<>> =>
                 ppc' = "scan" /\ pidx' = pidx + 1 /\ pfreqs' = <<>>
          /\ inDataSection /\ CurrentLine \in {RowA, RowB} =>
                 Len(pfreqs') = Len(pfreqs) + 1]_vars

\* a banner inside the table and a footer outside it, both before any record,
\* were passed, and the row after them was collected
C24_Witness ==
    /\ ppc = "done"
    /\ pfile \in {TextFile(<<HeaderLine, BannerLine, RowA, FooterLine>>),
                  TextFile(<<FooterLine, HeaderLine, FooterLine, RowA>>)}
    /\ Len(presult.frequencies) = 1

\* the lines at which the parser is in the terminal state at the latest: a
\* marker line that is not a header, after a header and a well-formed row
TerminalLines ==
    {t \in 1..Len(pfile.lines) :
        /\ IsMarker(pfile.lines[t])
        /\ ~OpensTable(pfile.lines[t])
        /\ \E h \in 1..(t - 1) :
               /\ OpensTable(pfile.lines[h])
               /\ \E r \in (h + 1)..(t - 1) : pfile.lines[r] \in {RowA, RowB}}

\* C25: once a boundary marker has been met after at least one record, the
\* frequency list is final: the list changes only while the loop is at a
\* line before every such marker, and the list returned is the list the
\* loop held when it ended.
C25_ListFinalAfterTerminal ==
    [][/\ pfreqs' # pfreqs =>
              ppc = "scan" /\ \A t \in TerminalLines : pidx < t
       /\ ppc # "start" /\ ppc' = "done" => presult'.frequencies = pfreqs]_vars

\* the well-formed row after the footer was not added
C25_Witness ==
    /\ ppc = "done"
    /\ pfile \in {TextFile(<<HeaderLine, RowA, FooterLine, RowB>>),
                  TextFile(<<HeaderLine, RowB, BannerLine, HeaderLine>>)}
    /\ Len(presult.frequencies) = 1
    /\ pidx = 3

\* C26: a line is accepted as a record only if it has at least six fields
\* and its field at index 2 parses to a finite number greater than zero:
\* every record returned has a finite frequency above zero.
C26_AcceptedFrequencyFinite ==
    ppc = "done" =>
        \A i \in 1..Len(presult.frequencies) :
            /\ presult.frequencies[i].freq.k = "num"
            /\ presult.frequencies[i].freq.v > 0

\* the four values written in a well-formed row, in thousandths
RowValues(row) ==
    IF row = RowA
    THEN [freq |-> Num(2000), sdbw |-> Num(0 - 120290), snr |-> Num(0 - 16040),
          reliability |-> Num(0)]
    ELSE [freq |-> Num(14100), sdbw |-> Num(0 - 98500), snr |-> Num(22100),
          reliability |-> Num(85300)]

\* a header line, then well-formed rows, then a footer line
WellFormedReport(file) ==
    /\ file.err = ""
    /\ Len(file.lines) >= 2
    /\ file.lines[1] = HeaderLine
    /\ file.lines[Len(file.lines)] = FooterLine
    /\ \A i \in 2..(Len(file.lines) - 1) : file.lines[i] \in {RowA, RowB}

\* C6: for a header line, n well-formed rows and a footer line,
\* parseOutputFile returns n records in row order, record k holding fields
\* 2, 3, 4 and 5 of row k as freq, sdbw, snr and reliability.
C6_WellFormedRows ==
    (ppc = "done" /\ WellFormedReport(pfile)) =>
        /\ Len(presult.frequencies) = Len(pfile.lines) - 2
        /\ \A k \in 1..Len(presult.frequencies) :
              presult.frequencies[k] = RowValues(pfile.lines[k + 1])

\* two different rows between header and footer were parsed
C6_Witness ==
    /\ ppc = "done"
    /\ pfile = TextFile(<<HeaderLine, RowA, RowB, FooterLine>>)
    /\ Len(presult.frequencies) = 2

-----------------------------------------------------------------------------
(* Properties of GET /api/dxcluster/spots (specification SpecDx) *)

\* the ways a source can fail
DxFailures == {"threw", "notOK", "parseFailed", "noSpots"}

\* the last source consulted
LastConsulted == dlog[Len(dlog)]

\* the handler is waiting for a source
DxAwaiting == dpc \in {"fetch", "text"}

DxOrderAndResponse ==
    /\ Len(dres) <= 1
    /\ (dpc = "done") = (Len(dres) = 1)
    /\ Len(dlog) <= 4
    /\ \A i \in 1..Len(dlog) :
           dlog[i].source = <<"DXHeat", "PSKReporter", "HamQTH", "DXWatch">>[i]
    /\ \A i \in 1..(Len(dlog) - 1) : dlog[i].kind \in DxFailures
    /\ DxAwaiting => dlog # <<>> /\ LastConsulted.kind = "pending"
    /\ dpc = "done" =>
           /\ dres[1].status = 200
           /\ IF LastConsulted.kind = "spots"
              THEN /\ dres[1].body # <<>>
                   /\ \A j \in 1..Len(dres[1].body) :
                          dres[1].body[j].source = LastConsulted.source
              ELSE /\ Len(dlog) = 4
                   /\ LastConsulted.kind \in DxFailures
                   /\ dres[1].body = <<>>

=============================================================================
